---- MODULE Spec2Model ----
(***************************************************************************)
(* Model of auto_bluetooth_wifi_sharer.py: the GLib main loop that         *)
(* dispatches BlueZ ObjectManager signals to on_device_connected and       *)
(* on_device_disconnected, the credential extraction started by a connect, *)
(* and connect_to_wifi (apply, verify, persist).                           *)
(*                                                                         *)
(* The handlers are plain synchronous Python functions run by              *)
(* mainloop.run(): a handler runs to its end, through its time.sleep and   *)
(* subprocess.run calls, before the loop takes the next signal.  The model *)
(* splits a handler at exactly those blocking calls, because signals       *)
(* arrive, readers read the store file and the process can be killed       *)
(* while the handler sits in one of them.                                  *)
(***************************************************************************)
EXTENDS Integers, Sequences, FiniteSets, TLC

VARIABLES
    connected_devices,  \* self.connected_devices (line 43)
    queue,              \* signals received from the bus, not yet dispatched
    running,            \* activations of on_device_connected not yet returned
    store,              \* content of /etc/wifi_credentials.json (line 38)
    wpa,                \* content of /etc/wpa_supplicant/wpa_supplicant.conf
    alive,              \* the process has not been killed
    proc                \* position of main() and run(), self.adapter, exit code

vars == <<connected_devices, queue, running, store, wpa, alive, proc>>

----------------------------------------------------------------------------
(* Bounds                                                                  *)

\* Signals that may wait in the main loop while a handler runs.
MaxQueue == 2

----------------------------------------------------------------------------
(* Values                                                                  *)

\* D-Bus object paths of the peers.
Peers == {"dev_A", "dev_B"}

\* Python None where a str is expected (dict.get of a missing key).
None == "None"

\* Python None where a dict is expected.
PyNone == [t |-> "none"]

Dict(f) == [t |-> "dict", d |-> f]

EmptyDict == Dict([k \in {} |-> ""])

\* dict.get(key): the value, or None when the key is missing.
Get(c, k) == IF k \in DOMAIN c.d THEN c.d[k] ELSE None

\* Truth value of a str-or-None.
TruthyStr(v) == v # None /\ v # ""

\* Truth value of a dict-or-None.
TruthyDict(c) == c.t = "dict" /\ DOMAIN c.d # {}

\* A record written with its two values in each other's place.
RecordSwapped(s, p) == [ssid |-> p, password |-> s]

\* The record json.dump writes (line 299).
Record(s, p) == [ssid |-> s, password |-> p]

\* The store file does not exist.
NoFile == [file |-> "absent"]

\* The store file exists and holds no complete JSON document: the state
\* open(..., 'w') leaves it in before the buffered dump is flushed.
Truncated == [file |-> "truncated"]

\* The record a previous run left behind.
PrevRecord == Record("OldNet", "oldpass99")

\* Output of `iwconfig wlan0` (line 292), by what line 295 looks for.
IwOutput(e, o, n) == [essid |-> e, offany |-> o, net |-> n]

NoDevice == IwOutput(FALSE, FALSE, None)

Unassociated == IwOutput(TRUE, TRUE, None)

Networks == {"HomeNet", "OtherNet"}

IwOutputs == {NoDevice, Unassociated} \cup {IwOutput(TRUE, FALSE, n) : n \in Networks}

----------------------------------------------------------------------------
(* Pure parts of the code                                                  *)

\* simulate_credential_extraction as the source has it: it sleeps and
\* returns None on both of its paths.
simulate_credential_extraction == PyNone

\* What the extraction step hands to line 215.  Line 212 marks the stub to
\* be replaced by the protocol, and lines 215-228 are written for the
\* Optional[Dict[str, str]] of its signature; the results are the stub's
\* value and payloads of that type: empty, a key missing, an empty ssid,
\* complete ones.
ExtractionResults ==
    { simulate_credential_extraction,
      EmptyDict,
      Dict([ssid |-> "HomeNet"]),
      Dict([ssid |-> "", password |-> "s3cret123"]),
      Dict([ssid |-> "HomeNet", password |-> "s3cret123"]),
      Dict([ssid |-> "OtherNet", password |-> "abc"]) }

\* Line 215 without its test of the password.
CredentialsUsableSsidOnly(c) ==
    /\ TruthyDict(c)
    /\ TruthyStr(Get(c, "ssid"))

\* Line 215: credentials and credentials.get('ssid') and credentials.get('password')
CredentialsUsable(c) ==
    /\ TruthyDict(c)
    /\ TruthyStr(Get(c, "ssid"))
    /\ TruthyStr(Get(c, "password"))

\* Line 295: 'ESSID:' in result.stdout and 'off/any' not in result.stdout
Associated(out) == out.essid /\ ~out.offany

\* A loop that starts a handler while another one is still running, as
\* handlers run on threads would be.
LoopAlwaysIdle == TRUE

\* mainloop.run() runs one callback at a time: a signal is dispatched only
\* when no handler is running.
LoopIdle == running = <<>>

----------------------------------------------------------------------------
(* main() and run()                                                        *)

\* The setup stages of run(), in the order of lines 319-336.
Stages == <<"deps", "bluetooth", "dbus", "monitor">>

\* What follows a setup stage that succeeded: the next stage, or
\* mainloop.run() (line 345) after the last one.
NextStage(s) ==
    CASE s = "deps"      -> "bluetooth"
      [] s = "bluetooth" -> "dbus"
      [] s = "dbus"      -> "monitor"
      [] s = "monitor"   -> "loop"

\* The object path setup_dbus finds for org.bluez.Adapter1 (lines 130-133).
Hci0 == "/org/bluez/hci0"

\* The value run() returns: True on KeyboardInterrupt (line 349), False on
\* a failed stage (321, 326, 331, 336) and on any other exception (352).
run_result(why) == why = "interrupt"

\* main(), lines 364-369: sys.exit(0) if run() succeeded, else sys.exit(1).
exit_code(success) == IF success THEN 0 ELSE 1

\* run() returns for the reason why, and main() exits.
Exited(p, why) ==
    [p EXCEPT !.stage = "exited", !.why = why,
              !.code = exit_code(run_result(why))]

\* run() after a setup stage that goes on whatever the stage returned.
AfterStageUnchecked(p, s, ok) ==
    [p EXCEPT !.stage = NextStage(s), !.ran = Append(@, [stage |-> s, ok |-> ok])]

\* run() after a setup stage returned ok (lines 319-336): on to the next
\* stage, or return False.
AfterStage(p, s, ok) ==
    IF ok
    THEN [p EXCEPT !.stage = NextStage(s), !.ran = Append(@, [stage |-> s, ok |-> ok])]
    ELSE Exited([p EXCEPT !.ran = Append(@, [stage |-> s, ok |-> ok])], "setupfail")

\* setup_dbus, lines 135-140: True only if an adapter was found.
SetupDbusOk(adapter) == adapter # None

\* The loop's handlers run only while the process is in mainloop.run().
Looping == alive /\ proc.stage = "loop"

----------------------------------------------------------------------------
(* Signals and activations                                                 *)

\* An ObjectManager signal: InterfacesAdded ("added") or InterfacesRemoved
\* ("removed") for an object path; dev tells whether org.bluez.Device1 is
\* among the interfaces it names.
Signal(k, p, d) == [kind |-> k, path |-> p, dev |-> d]

Signals == {Signal(k, p, d) : k \in {"added", "removed"}, p \in Peers, d \in BOOLEAN}

\* The activation of on_device_connected for a device, on entry to
\* simulate_credential_extraction (lines 179-182, 213, 250).  Besides the
\* position and the locals it records what the activation has done so far.
NewSession(p, st) ==
    [ peer     |-> p,
      pc       |-> "extract",
      creds    |-> PyNone,      \* credentials (line 213)
      attempts |-> 1,           \* calls of simulate_credential_extraction
      handed   |-> <<>>,        \* arguments of the calls of connect_to_wifi
      applied  |-> 0,           \* runs of the apply step (lines 278-286)
      queries  |-> 0,           \* runs of iwconfig (line 292)
      out      |-> NoDevice,    \* result.stdout (line 292)
      why      |-> "none",      \* the path the activation ended on
      ctw      |-> "none",      \* outcome of connect_to_wifi
      result   |-> "none",      \* return value of extract_wifi_credentials
      disc     |-> FALSE,       \* a disconnect of peer was signalled while
                                \* the extraction was in progress
      at       |-> "none",      \* the call that raised, if one did
      store0   |-> st ]         \* the store when the activation started

\* extract_wifi_credentials returns r (lines 222, 225, 228, 232).
Returned(a, r, w, c) ==
    [a EXCEPT !.pc = "ret", !.result = r, !.why = w, !.ctw = c]

\* An extraction that is run again, up to three times, when it yields no
\* usable credentials.
NoCredentialsRetry(a) ==
    IF a.attempts < 3
    THEN [a EXCEPT !.attempts = @ + 1, !.creds = PyNone]
    ELSE Returned(a, "false", "nocreds", "none")

\* Lines 226-228: no usable credentials; the extraction ends, returning False.
NoCredentials(a) == Returned(a, "false", "nocreds", "none")

\* Lines 215-220: the decision on the extraction's result.
Decide(a, c) ==
    IF CredentialsUsable(c)
    THEN [a EXCEPT !.creds = c, !.pc = "apply",
                   !.handed = Append(@, Record(Get(c, "ssid"), Get(c, "password")))]
    ELSE NoCredentials([a EXCEPT !.creds = c])

\* An apply step whose subprocess failure is ignored (check=True left out):
\* connect_to_wifi goes on to the verify step.
ApplyRejectedIgnored(a) == [a EXCEPT !.pc = "verify", !.why = "applyerr"]

\* Lines 308-310 and 223-225: a subprocess of the apply step raised
\* CalledProcessError; connect_to_wifi returns False and so does the
\* extraction.
ApplyRejected(a) == Returned(a, "false", "applyerr", "false")

\* An exception other than CalledProcessError that no handler catches: it
\* leaves extract_wifi_credentials and on_device_connected.
RaisedEscapes(a, w) == [a EXCEPT !.pc = "escaped", !.why = w]

\* Lines 230-232: an exception other than CalledProcessError leaves
\* connect_to_wifi and is caught by extract_wifi_credentials.
Raised(a, w) == Returned(a, "false", w, "raised")

\* A verify step that runs iwconfig again, up to five times, while it
\* reports no association.
VerifiedRetry(a, out) ==
    IF Associated(out)
    THEN [a EXCEPT !.out = out, !.queries = @ + 1, !.pc = "save"]
    ELSE IF a.queries + 1 < 5
         THEN [a EXCEPT !.out = out, !.queries = @ + 1]
         ELSE Returned([a EXCEPT !.out = out, !.queries = @ + 1],
                       "false", "verifyfail", "false")

\* A verify step that goes on to the store whatever iwconfig printed.
VerifiedUnchecked(a, out) ==
    [a EXCEPT !.out = out, !.queries = @ + 1, !.pc = "save"]

\* Lines 295-306: the decision on the output of iwconfig.
Verified(a, out) ==
    IF Associated(out)
    THEN [a EXCEPT !.out = out, !.queries = @ + 1, !.pc = "save"]
    ELSE Returned([a EXCEPT !.out = out, !.queries = @ + 1],
                  "false", "verifyfail", "false")

\* The activation, with the call that raised noted.
At(a, where) == [a EXCEPT !.at = where]

\* A configuration file that is appended to (open mode 'a') instead of
\* being replaced.
AppendConfig(old, new) == [before |-> old, network |-> new]

\* Lines 278-282: /tmp/wpa_supplicant.conf is written with mode 'w' and
\* copied over wpa_supplicant.conf: the new content replaces the old.
Overwrite(old, new) == new

\* The record connect_to_wifi was called with.
Wanted(a) == a.handed[Len(a.handed)]

\* The sequence without its i-th element.
Remove(seq, i) == SubSeq(seq, 1, i - 1) \o SubSeq(seq, i + 1, Len(seq))

----------------------------------------------------------------------------
(* Actions                                                                 *)

Init ==
    /\ connected_devices = {}
    /\ queue = <<>>
    /\ running = <<>>
    /\ store \in {NoFile, PrevRecord}
    /\ wpa = store
    /\ alive = TRUE
    /\ proc = [stage |-> "main", ran |-> << >>, adapter |-> None,
               why |-> "none", code |-> -1]

\* main(), lines 356-362: the process must run as root.
main ==
    /\ alive /\ proc.stage = "main"
    /\ \E root \in BOOLEAN :
          proc' = IF root
                  THEN [proc EXCEPT !.stage = "deps"]
                  ELSE [proc EXCEPT !.stage = "exited", !.why = "notroot", !.code = 1]
    /\ UNCHANGED <<connected_devices, queue, running, store, wpa, alive>>

\* An exception other than KeyboardInterrupt reaches run() (lines 350-352).
RunRaises ==
    /\ proc' = Exited([proc EXCEPT !.ran =
                          Append(@, [stage |-> proc.stage, ok |-> FALSE])],
                      "exception")
    /\ UNCHANGED <<connected_devices, queue, running, store, wpa, alive>>

\* check_dependencies (lines 45-63, 319-321): all packages installed, one
\* missing, or dpkg itself cannot be run.
check_dependencies ==
    /\ alive /\ proc.stage = "deps"
    /\ \/ /\ \E ok \in BOOLEAN : proc' = AfterStage(proc, "deps", ok)
          /\ UNCHANGED <<connected_devices, queue, running, store, wpa, alive>>
       \/ RunRaises

\* setup_bluetooth (lines 65-114, 324-326): configured, a subprocess fails
\* (CalledProcessError, returns False), or /tmp/bluetooth.conf cannot be
\* written.
setup_bluetooth ==
    /\ alive /\ proc.stage = "bluetooth"
    /\ \/ /\ \E ok \in BOOLEAN : proc' = AfterStage(proc, "bluetooth", ok)
          /\ UNCHANGED <<connected_devices, queue, running, store, wpa, alive>>
       \/ RunRaises

\* setup_dbus (lines 116-144, 329-331): the managed objects hold an
\* adapter or none; an exception of the bus is caught and gives False.
setup_dbus ==
    /\ alive /\ proc.stage = "dbus"
    /\ \/ \E found \in {None, Hci0} :
             proc' = AfterStage([proc EXCEPT !.adapter = found], "dbus",
                                SetupDbusOk(found))
       \/ proc' = AfterStage(proc, "dbus", FALSE)
    /\ UNCHANGED <<connected_devices, queue, running, store, wpa, alive>>

\* setup_bluetooth_monitoring (lines 146-168, 334-336): both receivers
\* added, or an exception caught and False returned.
setup_bluetooth_monitoring ==
    /\ alive /\ proc.stage = "monitor"
    /\ \E ok \in BOOLEAN : proc' = AfterStage(proc, "monitor", ok)
    /\ UNCHANGED <<connected_devices, queue, running, store, wpa, alive>>

\* KeyboardInterrupt inside run(), in a setup stage or in mainloop.run()
\* (lines 347-349): run() returns True.  The process ends, and with it
\* its registry, its pending signals and its handler.
KeyboardInterrupt ==
    /\ alive
    /\ proc.stage \in {"deps", "bluetooth", "dbus", "monitor", "loop"}
    /\ proc' = Exited(proc, "interrupt")
    /\ connected_devices' = {} /\ queue' = << >> /\ running' = << >>
    /\ UNCHANGED <<store, wpa, alive>>

\* mainloop.run() ends with an exception (lines 345, 350-352): run()
\* returns False.
mainloop_raises ==
    /\ Looping
    /\ proc' = Exited(proc, "loopexception")
    /\ connected_devices' = {} /\ queue' = << >> /\ running' = << >>
    /\ UNCHANGED <<store, wpa, alive>>

\* The bus delivers a signal to the process; it waits in the main loop
\* until the loop dispatches it (lines 150-161).
Receive(k, p, d) ==
    /\ Looping
    /\ Len(queue) < MaxQueue
    /\ queue' = Append(queue, Signal(k, p, d))
    /\ running' = [i \in DOMAIN running |->
                     IF k = "removed" /\ running[i].peer = p /\ running[i].pc = "extract"
                     THEN [running[i] EXCEPT !.disc = TRUE]
                     ELSE running[i]]
    /\ UNCHANGED <<connected_devices, store, wpa, alive, proc>>

\* The loop dispatches InterfacesAdded to on_device_connected (lines
\* 170-185), which runs up to the sleep of the extraction.
on_device_connected ==
    /\ Looping /\ LoopIdle
    /\ queue # <<>> /\ Head(queue).kind = "added"
    /\ queue' = Tail(queue)
    /\ IF Head(queue).dev
       THEN /\ connected_devices' = connected_devices \cup {Head(queue).path}
            /\ running' = Append(running, NewSession(Head(queue).path, store))
       ELSE UNCHANGED <<connected_devices, running>>
    /\ UNCHANGED <<store, wpa, alive, proc>>

\* The loop dispatches InterfacesRemoved to on_device_disconnected (lines
\* 187-195).
on_device_disconnected ==
    /\ Looping /\ LoopIdle
    /\ queue # <<>> /\ Head(queue).kind = "removed"
    /\ queue' = Tail(queue)
    /\ connected_devices' = connected_devices \ {Head(queue).path}
    /\ UNCHANGED <<running, store, wpa, alive, proc>>

\* simulate_credential_extraction returns and extract_wifi_credentials
\* decides on its result (lines 213-228).
extract_wifi_credentials(i) ==
    /\ Looping
    /\ running[i].pc = "extract"
    /\ \E c \in ExtractionResults :
          running' = [running EXCEPT ![i] = Decide(@, c)]
    /\ UNCHANGED <<connected_devices, queue, store, wpa, alive, proc>>

\* connect_to_wifi, the apply step (lines 263-286, 308-310): write the
\* configuration to /tmp, copy it over wpa_supplicant.conf, restart
\* networking.
connect_to_wifi_apply(i) ==
    /\ Looping
    /\ running[i].pc = "apply"
    /\ LET a == [running[i] EXCEPT !.applied = @ + 1] IN
       \/ \* open('/tmp/wpa_supplicant.conf', 'w') raises OSError
          /\ running' = [running EXCEPT ![i] = Raised(At(a, "tmp"), "applyio")]
          /\ wpa' = wpa
       \/ \* cp fails
          /\ running' = [running EXCEPT ![i] = ApplyRejected(At(a, "cp"))]
          /\ wpa' = wpa
       \/ \* cp succeeds, systemctl restart networking fails
          /\ running' = [running EXCEPT ![i] = ApplyRejected(At(a, "restart"))]
          /\ wpa' = Overwrite(wpa, Wanted(a))
       \/ \* both succeed; on to time.sleep(10)
          /\ running' = [running EXCEPT ![i] = [a EXCEPT !.pc = "verify"]]
          /\ wpa' = Overwrite(wpa, Wanted(a))
    /\ UNCHANGED <<connected_devices, queue, store, alive, proc>>

\* connect_to_wifi, the verify step (lines 289-306): one run of iwconfig.
connect_to_wifi_verify(i) ==
    /\ Looping
    /\ running[i].pc = "verify"
    /\ \/ \E out \in IwOutputs :
             running' = [running EXCEPT ![i] = Verified(@, out)]
       \/ \* iwconfig cannot be run: OSError
          running' = [running EXCEPT ![i] =
                         Raised(At([@ EXCEPT !.queries = @ + 1], "iwconfig"),
                                "verifyio")]
    /\ UNCHANGED <<connected_devices, queue, store, wpa, alive, proc>>

\* connect_to_wifi, open(self.config_file, 'w') (line 300): the file is
\* truncated, or the open fails.
connect_to_wifi_open(i) ==
    /\ Looping
    /\ running[i].pc = "save"
    /\ \/ /\ store' = Truncated
          /\ running' = [running EXCEPT ![i].pc = "dump"]
       \/ /\ store' = store
          /\ running' = [running EXCEPT ![i] = Raised(At(@, "open"), "storeerr")]
    /\ UNCHANGED <<connected_devices, queue, wpa, alive, proc>>

\* connect_to_wifi, json.dump and the close that flushes it (lines
\* 301-303): the record reaches the file, or the write fails.
connect_to_wifi_dump(i) ==
    /\ Looping
    /\ running[i].pc = "dump"
    /\ \/ /\ store' = Wanted(running[i])
          /\ running' = [running EXCEPT ![i] = Returned(@, "true", "ok", "true")]
       \/ /\ store' = store
          /\ running' = [running EXCEPT ![i] = Raised(At(@, "dump"), "storeerr")]
    /\ UNCHANGED <<connected_devices, queue, wpa, alive, proc>>

\* on_device_connected returns to the main loop (lines 182-185).
handler_returns(i) ==
    /\ Looping
    /\ running[i].pc = "ret"
    /\ running' = Remove(running, i)
    /\ UNCHANGED <<connected_devices, queue, store, wpa, alive, proc>>

\* The process is killed (power loss, SIGKILL) at any point.
Crash ==
    /\ alive /\ proc.stage # "exited"
    /\ alive' = FALSE
    /\ UNCHANGED <<connected_devices, queue, running, store, wpa, proc>>

Next ==
    \/ main
    \/ check_dependencies
    \/ setup_bluetooth
    \/ setup_dbus
    \/ setup_bluetooth_monitoring
    \/ KeyboardInterrupt
    \/ mainloop_raises
    \/ \E k \in {"added", "removed"}, p \in Peers, d \in BOOLEAN : Receive(k, p, d)
    \/ on_device_connected
    \/ on_device_disconnected
    \/ \E i \in DOMAIN running : extract_wifi_credentials(i)
    \/ \E i \in DOMAIN running : connect_to_wifi_apply(i)
    \/ \E i \in DOMAIN running : connect_to_wifi_verify(i)
    \/ \E i \in DOMAIN running : connect_to_wifi_open(i)
    \/ \E i \in DOMAIN running : connect_to_wifi_dump(i)
    \/ \E i \in DOMAIN running : handler_returns(i)
    \/ Crash

Spec == Init /\ [][Next]_vars

----------------------------------------------------------------------------
(* connect_to_wifi called twice                                            *)

\* The process in mainloop.run(), the four setup stages passed.
InLoop ==
    [stage |-> "loop",
     ran |-> [n \in DOMAIN Stages |-> [stage |-> Stages[n], ok |-> TRUE]],
     adapter |-> Hci0, why |-> "none", code |-> -1]

\* A handler has reached its call of connect_to_wifi (line 220) with the
\* name and secret of a usable payload.
InitTwice ==
    /\ queue = << >>
    /\ store \in {NoFile, PrevRecord}
    /\ wpa = store
    /\ alive = TRUE
    /\ proc = InLoop
    /\ \E p \in Peers :
          /\ connected_devices = {p}
          /\ \E c \in {x \in ExtractionResults : CredentialsUsable(x)} :
                running = << Decide(NewSession(p, store), c) >>

\* The first call has returned; connect_to_wifi is called once more with
\* the same ssid and password.
call_again ==
    /\ Looping
    /\ Len(running) = 1
    /\ running[1].pc = "ret"
    /\ running' = Append(running,
                         Decide(NewSession(running[1].peer, store), running[1].creds))
    /\ UNCHANGED <<connected_devices, queue, store, wpa, alive, proc>>

NextTwice ==
    \/ \E i \in DOMAIN running : connect_to_wifi_apply(i)
    \/ \E i \in DOMAIN running : connect_to_wifi_verify(i)
    \/ \E i \in DOMAIN running : connect_to_wifi_open(i)
    \/ \E i \in DOMAIN running : connect_to_wifi_dump(i)
    \/ call_again

SpecTwice == InitTwice /\ [][NextTwice]_vars

----------------------------------------------------------------------------
(* Type invariant *)

TypeOK ==
    /\ connected_devices \subseteq Peers
    /\ queue \in Seq(Signals) /\ Len(queue) <= MaxQueue
    /\ Len(running) <= 1
    /\ alive \in BOOLEAN

----------------------------------------------------------------------------
(* Properties                                                              *)

\* The positions of an activation inside connect_to_wifi.
Provisioning == {"apply", "verify", "save", "dump"}

\* C1: once a disconnect of peer P has been signalled while P's extraction
\* was in progress, that extraction never calls connect_to_wifi, never
\* reports success and never changes the store.
C1_DisconnectAborts ==
    \A i \in DOMAIN running :
        running[i].disc =>
            /\ running[i].pc \notin Provisioning
            /\ running[i].handed = <<>>
            /\ running[i].result # "true"
            /\ store = running[i].store0

\* C2: the store file holds the complete previous record (or is absent, as
\* before the first write) or the complete new record, never an empty or
\* partly written document, in every state a reader or a crash can see.
C2_StoreAtomic == store # Truncated

\* C3: at most one activation is inside connect_to_wifi (apply, verify,
\* persist) at a time.
C3_OneProvisioningAtATime ==
    Cardinality({i \in DOMAIN running : running[i].pc \in Provisioning}) <= 1

\* C3 witness: an attempt is in its apply or verify step while the connect
\* of another device waits in the loop.
C3_Witness ==
    \E i \in DOMAIN running :
        /\ running[i].pc \in {"apply", "verify"}
        /\ \E n \in DOMAIN queue :
              /\ queue[n].kind = "added" /\ queue[n].dev
              /\ queue[n].path # running[i].peer

\* C4: no two activations are for the same peer: a connect of P starts no
\* extraction while an earlier one for P has not returned.
C4_OneSessionPerPeer ==
    \A i, j \in DOMAIN running :
        i # j => running[i].peer # running[j].peer

\* C4 witness: P's extraction is in progress and a second connect of P waits.
C4_Witness ==
    \E i \in DOMAIN running :
        /\ running[i].pc = "extract"
        /\ \E n \in DOMAIN queue :
              /\ queue[n].kind = "added" /\ queue[n].dev
              /\ queue[n].path = running[i].peer

\* A payload with a non-empty network name and a non-empty secret.
WellFormed(c) ==
    /\ c.t = "dict"
    /\ {"ssid", "password"} \subseteq DOMAIN c.d
    /\ c.d["ssid"] # "" /\ c.d["password"] # ""

\* C5: an activation past its extraction has called connect_to_wifi exactly
\* once, with the extracted name and secret, if the extraction yielded a
\* well-formed payload, and not at all otherwise; no activation calls it
\* twice.
C5_ExactlyOnceHandoff ==
    \A i \in DOMAIN running :
        /\ Len(running[i].handed) <= 1
        /\ running[i].pc # "extract" =>
              running[i].handed =
                 IF WellFormed(running[i].creds)
                 THEN << Record(running[i].creds.d["ssid"],
                                running[i].creds.d["password"]) >>
                 ELSE << >>

\* C5 witness: an activation has returned after one call of connect_to_wifi.
C5_Witness ==
    \E i \in DOMAIN running :
        /\ running[i].pc = "ret"
        /\ Len(running[i].handed) = 1
        /\ running[i].ctw # "none"

\* C6: while one peer's extraction or provisioning is in progress, a signal
\* for another peer that is first in the loop can be dispatched.
C6_DispatcherNotBlocked ==
    \A i \in DOMAIN running :
        ( /\ alive
          /\ running[i].pc \in {"extract"} \cup Provisioning
          /\ queue # <<>>
          /\ Head(queue).path # running[i].peer )
        => ENABLED (on_device_connected \/ on_device_disconnected)

\* C7: connect_to_wifi gets to writing the store, and returns True, only if
\* iwconfig reported an association with the requested network.
C7_SuccessMeansRequestedNetwork ==
    \A i \in DOMAIN running :
        (running[i].pc \in {"save", "dump"} \/ running[i].ctw = "true")
        => running[i].out.net = Wanted(running[i]).ssid

\* C8: when writing the store fails after apply and verify succeeded, the
\* attempt is still reported as successful and the store is as it was
\* before the attempt.
C8_StoreErrorKeepsSuccess ==
    \A i \in DOMAIN running :
        running[i].why = "storeerr" =>
            /\ running[i].ctw = "true"
            /\ running[i].result = "true"
            /\ store = running[i].store0

\* An activation whose apply step was rejected (CalledProcessError).
C9_Rejected(a) == a.why = "applyerr"

\* C9: after a rejected apply step the attempt has ended as failed:
\* connect_to_wifi and the extraction returned False, the apply step ran
\* once, iwconfig was never run, the store is as it was; and the handler
\* then only returns: no extraction is started from it.
C9_ApplyFailureIsFinal ==
    /\ [](\A i \in DOMAIN running :
            C9_Rejected(running[i]) =>
               /\ running[i].pc = "ret"
               /\ running[i].ctw = "false"
               /\ running[i].result = "false"
               /\ running[i].applied = 1
               /\ running[i].queries = 0
               /\ running[i].attempts = 1
               /\ store = running[i].store0)
    /\ [][(\E i \in DOMAIN running : C9_Rejected(running[i]))
            => running' \in {running, << >>}]_vars

\* C9 witness: a rejected attempt has returned, the configuration file
\* already replaced.
C9_Witness ==
    \E i \in DOMAIN running :
        /\ C9_Rejected(running[i])
        /\ running[i].pc = "ret"
        /\ wpa = Wanted(running[i])
        /\ wpa # store

Errors == {"applyerr", "applyio", "verifyio", "storeerr"}

\* C12: an error met by a peer's activation is caught inside the handler
\* (the extraction returns False); the step that meets it changes neither
\* the registry nor the pending signals nor the state of the loop; the
\* handler can then return, and the idle loop dispatches the next signal.
C12_ErrorsStayInHandler ==
    /\ [](\A i \in DOMAIN running :
            running[i].why \in Errors =>
               /\ running[i].pc = "ret"
               /\ running[i].result = "false"
               /\ Looping => ENABLED handler_returns(i))
    /\ []((Looping /\ running = << >> /\ queue # << >>)
             => ENABLED (on_device_connected \/ on_device_disconnected))
    /\ [][(\E i \in DOMAIN running :
              /\ running[i].why = "none"
              /\ i \in DOMAIN running'
              /\ running'[i].why \in Errors)
            => /\ connected_devices' = connected_devices
               /\ queue' = queue
               /\ proc' = proc
               /\ alive' = alive]_vars

\* C12 witness: a handler has caught a file I/O error of the persist step
\* while another peer is registered and a signal waits.
C12_Witness ==
    \E i \in DOMAIN running :
        /\ running[i].why = "storeerr"
        /\ running[i].pc = "ret"
        /\ Looping
        /\ queue # << >>
        /\ connected_devices \ {running[i].peer} # {}

\* Length of the secrets that occur in the payloads.
SecretLen(p) ==
    CASE p = "s3cret123" -> 9
      [] p = "oldpass99" -> 9
      [] p = "abc"       -> 3
      [] OTHER           -> 0

\* C13: every call of connect_to_wifi is made with a non-empty network name
\* and a secret whose length is within the bounds of a WPA passphrase (8 to
\* 63 characters).
C13_HandedCredentialsValid ==
    \A i \in DOMAIN running :
        \A n \in DOMAIN running[i].handed :
            /\ running[i].handed[n].ssid # ""
            /\ SecretLen(running[i].handed[n].password) >= 8
            /\ SecretLen(running[i].handed[n].password) <= 63

SetupSucceeded ==
    /\ Len(proc.ran) = Len(Stages)
    /\ \A n \in DOMAIN proc.ran : proc.ran[n].ok

\* C15: the process exits with code 0 exactly when all setup stages
\* succeeded and the main loop was ended by the termination signal; a way
\* the main loop ends other than that signal is not reported with the exit
\* code of a setup failure; a failed setup stage and a non-root start give
\* a non-zero code.
C15_ExitCodes ==
    proc.stage = "exited" =>
        /\ proc.code = 0 <=> (SetupSucceeded /\ proc.why = "interrupt")
        /\ proc.why \in {"setupfail", "exception", "notroot"} => proc.code # 0
        /\ proc.why = "loopexception" => proc.code # 1

\* C17: the dispatch of a signal changes the registry exactly as the
\* linked peers change: a device interface added puts the peer in, a device
\* interface removed takes it out, a signal naming no device interface
\* (and so a removal for a peer not in the registry, too) leaves it as it
\* is.
C17_RegistryIsLinkedPeers ==
    [][(Looping /\ queue # << >> /\ queue' = Tail(queue) /\ proc' = proc)
         => connected_devices' =
               IF ~Head(queue).dev THEN connected_devices
               ELSE IF Head(queue).kind = "added"
                    THEN connected_devices \cup {Head(queue).path}
                    ELSE connected_devices \ {Head(queue).path}]_vars

\* The paths on which an exchange or an attempt fails before the store is
\* opened: no usable credentials, apply rejected or failed, verify failed.
FailedEarly == {"nocreds", "applyerr", "applyio", "verifyfail", "verifyio"}

\* C18: the store changes only in the persist step of an attempt whose
\* apply step ran and whose one iwconfig query showed an association; an
\* exchange or attempt that failed before leaves the store as it was when
\* the peer's connect was dispatched.
C18_StoreChangesOnlyOnSuccess ==
    /\ [](\A i \in DOMAIN running :
            running[i].why \in FailedEarly => store = running[i].store0)
    /\ [][store' # store =>
            \E i \in DOMAIN running :
               /\ running[i].pc \in {"save", "dump"}
               /\ running[i].applied = 1
               /\ running[i].queries = 1
               /\ running[i].out.essid /\ ~running[i].out.offany
               /\ wpa = Wanted(running[i])]_vars

\* C18 witness: an attempt has failed in its verify step with a record of
\* an earlier run in the store.
C18_Witness ==
    \E i \in DOMAIN running :
        /\ running[i].why = "verifyfail"
        /\ running[i].pc = "ret"
        /\ store = PrevRecord

\* C19: attempts run one at a time, and when an attempt has ended the store
\* holds its credentials if it succeeded and what it held before the attempt
\* if it did not.
C19_StoreIsLastSuccess ==
    /\ Len(running) <= 1
    /\ \A i \in DOMAIN running :
          running[i].pc = "ret" =>
             store = IF running[i].result = "true"
                     THEN Wanted(running[i])
                     ELSE running[i].store0

\* C20: the stages that have run are the first stages of the fixed order,
\* all but the last of them having succeeded; a failed stage is the last one
\* run; the loop is entered, and signals are received and handled, only
\* with all four stages succeeded and an adapter found.
C20_StagesInOrder ==
    /\ Len(proc.ran) <= Len(Stages)
    /\ \A n \in DOMAIN proc.ran :
          /\ proc.ran[n].stage = Stages[n]
          /\ n < Len(proc.ran) => proc.ran[n].ok
    /\ proc.stage \in {"bluetooth", "dbus", "monitor", "loop"} =>
          /\ proc.ran # << >>
          /\ proc.ran[Len(proc.ran)].ok
          /\ proc.stage = NextStage(proc.ran[Len(proc.ran)].stage)
    /\ proc.why \in {"setupfail", "exception"} =>
          /\ proc.stage = "exited"
          /\ ~proc.ran[Len(proc.ran)].ok
    /\ proc.stage = "loop" => (SetupSucceeded /\ proc.adapter = Hci0)
    /\ (queue # << >> \/ running # << >> \/ connected_devices # {}) =>
          (proc.stage = "loop" /\ SetupSucceeded /\ proc.adapter = Hci0)

\* C20 witness: a peer's connect is being handled, after the four stages.
C20_Witness ==
    /\ proc.stage = "loop"
    /\ running # << >>
    /\ Len(proc.ran) = 4

\* The network environment answered two calls the same way: the same
\* subprocess or file operation failed, if any, and iwconfig printed the
\* same.
SameAnswers(a, b) == a.why = b.why /\ a.at = b.at /\ a.out = b.out

\* C16: a second call of connect_to_wifi with the same ssid and password,
\* answered as the first was, returns what the first returned and leaves
\* wpa_supplicant.conf and the store as the first call left them.
C16_Idempotent ==
    /\ []((Len(running) = 2 /\ running[2].pc = "ret"
             /\ SameAnswers(running[1], running[2]))
          => /\ running[2].ctw = running[1].ctw
             /\ running[2].result = running[1].result
             /\ running[2].handed = running[1].handed
             /\ store = running[2].store0)
    /\ [][(/\ Len(running) = 2
           /\ running[2].pc = "apply"
           /\ running'[2].pc # "apply"
           /\ (running'[2].at \in {"tmp", "cp"}) <=> (running[1].at \in {"tmp", "cp"}))
          => wpa' = wpa]_vars

\* C16 witness: two calls for the same credentials have both succeeded.
C16_Witness ==
    /\ Len(running) = 2
    /\ running[2].pc = "ret"
    /\ SameAnswers(running[1], running[2])
    /\ running[2].why = "ok"
    /\ store = Wanted(running[2])
    /\ wpa = Wanted(running[2])

====
